---- MODULE Spec2Model ----
(***************************************************************************)
(* Model of sgreenlee/Sudoku: the SquareBoard / Sudoku board classes of    *)
(* sudoku.py and the constraint-propagation SudokuSolver of solver.py.     *)
(*                                                                         *)
(* The program is single threaded.  Its state is the puzzle's cell list,   *)
(* the solver's candidate sets (possibilities), its pending updates and    *)
(* the position of solve() in its loops (pc, k, uc) together with solve's  *)
(* local variables (value, row, col).                                      *)
(***************************************************************************)
EXTENDS Integers, FiniteSets, Sequences, TLC

(***************************************************************************)
(* Program constants                                                       *)
(***************************************************************************)
\* Sudoku.__init__: dimension = 9
dimension == 9

\* Python's None, the content of an unassigned cell.  Every test the code
\* makes on a cell or on solve's local `value` is a truth test, and no cell
\* can hold the integer 0 (Sudoku.__setitem__ rejects it), so None is
\* represented by the one falsy integer.
None == 0

\* range(1, self.dimension + 1)
Idx == 1..dimension

\* The (row, col) tuples of the board
Positions == Idx \X Idx

(***************************************************************************)
(* Bounds of the model                                                     *)
(***************************************************************************)
\* Number of __setitem__ calls made from outside the solver in one behaviour
MaxSets == 1

(***************************************************************************)
(* SquareBoard                                                             *)
(***************************************************************************)
\* SquareBoard.__init__: _board = [None for x in range(dimension ** 2)].
\* Python lists are 0-based, the sequence here is 1-based: list index n is
\* sequence index n + 1.
EmptyBoard == [n \in 1..(dimension * dimension) |-> None]

\* SquareBoard._rowmajor, for a row and a column within 1..dimension (the
\* model makes no access out of bounds)
rowmajor(row, col) == (col - 1) + (row - 1) * dimension

\* SquareBoard.__getitem__ for a pair of integers
getitem(b, row, col) == b[rowmajor(row, col) + 1]

\* SquareBoard.__setitem__: raw write, no legality check
SquareBoard_setitem(b, row, col, value) ==
    [b EXCEPT ![rowmajor(row, col) + 1] = value]

\* SquareBoard.__init__: __rows / row_positions
row_positions(i) == {<<i, j>> : j \in Idx}

\* SquareBoard.__init__: __cols / col_positions
col_positions(col) == {<<i, col>> : i \in Idx}

\* SquareBoard.row_values: the truthy values of the row
row_values(b, row) == {getitem(b, row, j) : j \in Idx} \ {None}

\* SquareBoard.col_values
col_values(b, col) == {getitem(b, i, col) : i \in Idx} \ {None}

(***************************************************************************)
(* Sudoku                                                                  *)
(***************************************************************************)
\* Sudoku.__init__: the list __subgrids, appended for i, j in range(dim // 3)
\* with x = j * 3 + 1 (first column) and y = i * 3 + 1 (first row).
subgrids ==
    [n \in 1..((dimension \div 3) * (dimension \div 3)) |->
        LET i == (n - 1) \div (dimension \div 3)
            j == (n - 1) % (dimension \div 3)
            x == j * 3 + 1
            y == i * 3 + 1
        IN  {<<row, col>> : row \in y..(y + 2), col \in x..(x + 2)}]

\* Sudoku.subgrid_positions
subgrid_positions(row, col) ==
    subgrids[(((col - 1) \div 3) + 3 * ((row - 1) \div 3)) + 1]

\* Sudoku.subgrid_values
subgrid_values(b, row, col) ==
    {getitem(b, pos[1], pos[2]) : pos \in subgrid_positions(row, col)} \ {None}

\* Sudoku.__setitem__ with the subgrid test left out
Sudoku_setitem_nosubgrid(b, row, col, value) ==
    IF value < 1 \/ value > dimension
    THEN [board |-> b, exc |-> "ValueError"]
    ELSE IF value \in row_values(b, row) \/ value \in col_values(b, col)
         THEN [board |-> b, exc |-> "SudokuIntegrityError"]
         ELSE [board |-> SquareBoard_setitem(b, row, col, value), exc |-> "none"]

\* Sudoku.__setitem__ with the row test left out
Sudoku_setitem_norow(b, row, col, value) ==
    IF value < 1 \/ value > dimension
    THEN [board |-> b, exc |-> "ValueError"]
    ELSE IF value \in col_values(b, col)
              \/ value \in subgrid_values(b, row, col)
         THEN [board |-> b, exc |-> "SudokuIntegrityError"]
         ELSE [board |-> SquareBoard_setitem(b, row, col, value), exc |-> "none"]

\* Sudoku.__setitem__ with the lower bound of the range test off by one
Sudoku_setitem_lowbound(b, row, col, value) ==
    IF value < 0 \/ value > dimension
    THEN [board |-> b, exc |-> "ValueError"]
    ELSE IF value \in row_values(b, row) \/ value \in col_values(b, col)
              \/ value \in subgrid_values(b, row, col)
         THEN [board |-> b, exc |-> "SudokuIntegrityError"]
         ELSE [board |-> SquareBoard_setitem(b, row, col, value), exc |-> "none"]

\* Sudoku.__setitem__: the board after the call and the exception raised
Sudoku_setitem(b, row, col, value) ==
    IF value < 1 \/ value > dimension
    THEN [board |-> b, exc |-> "ValueError"]
    ELSE IF value \in row_values(b, row) \/ value \in col_values(b, col)
              \/ value \in subgrid_values(b, row, col)
         THEN [board |-> b, exc |-> "SudokuIntegrityError"]
         ELSE [board |-> SquareBoard_setitem(b, row, col, value), exc |-> "none"]

\* A puzzle built the way test_sudoku.py builds easy_sudoku: Sudoku() and
\* then one __setitem__ per given, in order; an exception ends the script,
\* the placements after it are not made.
RECURSIVE Placed(_, _)
Placed(b, placements) ==
    IF placements = <<>> THEN b
    ELSE LET r == Sudoku_setitem(b, placements[1][1], placements[1][2],
                                 placements[1][3])
         IN  IF r.exc = "none" THEN Placed(r.board, Tail(placements))
                               ELSE r.board

(***************************************************************************)
(* SudokuSolver: pure parts                                                *)
(***************************************************************************)
\* SudokuSolver.__init__: one set of all positions per value.  The Python
\* list is indexed by value - 1, the sequence here by value.
FullPossibilities == [v \in Idx |-> Positions]

\* No solver object exists
NoPossibilities == [v \in Idx |-> {}]

\* SudokuSolver.clear_row
clear_row(ps, row, value) == [ps EXCEPT ![value] = @ \ row_positions(row)]

\* clear_col that discards nothing
clear_col_skip(ps, col, value) == ps

\* SudokuSolver.clear_col
clear_col(ps, col, value) == [ps EXCEPT ![value] = @ \ col_positions(col)]

\* clear_subgrid that discards nothing
clear_subgrid_skip(ps, row, col, value) == ps

\* SudokuSolver.clear_subgrid
clear_subgrid(ps, row, col, value) ==
    [ps EXCEPT ![value] = @ \ subgrid_positions(row, col)]

\* SudokuSolver.check_row: the positions it calls update_cell for (the
\* intersection when it has exactly one member, else none)
check_row(ps, row, value) ==
    LET intersect == row_positions(row) \cap ps[value]
    IN  IF Cardinality(intersect) = 1 THEN intersect ELSE {}

\* check_col that takes the first position of an intersection of any size
check_col_any(ps, col, value) ==
    LET intersect == col_positions(col) \cap ps[value]
    IN  IF intersect # {}
        THEN {CHOOSE p \in intersect : \A q \in intersect : p[1] <= q[1]}
        ELSE {}

\* SudokuSolver.check_col
check_col(ps, col, value) ==
    LET intersect == col_positions(col) \cap ps[value]
    IN  IF Cardinality(intersect) = 1 THEN intersect ELSE {}

\* SudokuSolver.check_subgrid
check_subgrid(ps, row, col, value) ==
    LET intersect == subgrid_positions(row, col) \cap ps[value]
    IN  IF Cardinality(intersect) = 1 THEN intersect ELSE {}

\* check_cell that does not raise
check_cell_noraise(ps, b, row, col) ==
    LET possible_values == {v \in Idx : <<row, col>> \in ps[v]}
    IN  IF Cardinality(possible_values) = 1
        THEN [raise |-> FALSE, values |-> possible_values]
        ELSE [raise |-> FALSE, values |-> {}]

\* check_cell that never calls update_cell
check_cell_nocommit(ps, b, row, col) ==
    LET possible_values == {v \in Idx : <<row, col>> \in ps[v]}
    IN  IF Cardinality(possible_values) = 0
        THEN [raise |-> getitem(b, row, col) = None, values |-> {}]
        ELSE [raise |-> FALSE, values |-> {}]

\* SudokuSolver.check_cell: whether it raises SudokuIntegrityError, and the
\* values it calls update_cell(row, col, value) with (one or none)
check_cell(ps, b, row, col) ==
    LET possible_values == {v \in Idx : <<row, col>> \in ps[v]}
    IN  IF Cardinality(possible_values) = 0
        THEN [raise |-> getitem(b, row, col) = None, values |-> {}]
        ELSE IF Cardinality(possible_values) = 1
             THEN [raise |-> FALSE, values |-> possible_values]
             ELSE [raise |-> FALSE, values |-> {}]

\* SquareBoard.__iter__: the k-th position of the row-major iteration
IterPos(k) == <<((k - 1) \div dimension) + 1, ((k - 1) % dimension) + 1>>

\* len(puzzle): the number of iterations of `for value, (row, col) in puzzle`
NumCells == dimension * dimension

\* solve(): range(2, 8, 3), the arguments of the check_subgrid calls
SubgridArgs == <<2, 5>>

\* solve(): the number of check_* calls made for one popped update:
\* check_row(i), check_col(i) for i in 1..dim, then check_subgrid(row, i),
\* check_subgrid(i, col) for i in range(2, 8, 3)
NumChecks == 2 * dimension + 2 * Len(SubgridArgs)

\* solve(): the j-th check made for the popped (row, col); the result is the
\* set of positions the check calls update_cell for
DrainCheck(ps, j, row, col, value) ==
    IF j <= 2 * dimension
    THEN IF j % 2 = 1 THEN check_row(ps, (j + 1) \div 2, value)
                      ELSE check_col(ps, j \div 2, value)
    ELSE LET m == j - 2 * dimension
             i == SubgridArgs[(m + 1) \div 2]
         IN  IF m % 2 = 1 THEN check_subgrid(ps, row, i, value)
                          ELSE check_subgrid(ps, i, col, value)

\* solve(): the row, column or subgrid the j-th check made for the popped
\* (row, col) intersects with the candidate set
DrainGroup(j, row, col) ==
    IF j <= 2 * dimension
    THEN IF j % 2 = 1 THEN row_positions((j + 1) \div 2)
                      ELSE col_positions(j \div 2)
    ELSE LET m == j - 2 * dimension
             i == SubgridArgs[(m + 1) \div 2]
         IN  IF m % 2 = 1 THEN subgrid_positions(row, i)
                          ELSE subgrid_positions(i, col)

\* solve(): the first check from the j-th on that calls update_cell, or
\* NumChecks + 1.  The checks before it read the state and change nothing.
NextFiring(ps, j, row, col, value) ==
    LET F == {n \in j..NumChecks : DrainCheck(ps, n, row, col, value) # {}}
    IN  IF F = {} THEN NumChecks + 1
        ELSE CHOOSE n \in F : \A m \in F : n <= m

(***************************************************************************)
(* Construction and iteration of boards                                    *)
(***************************************************************************)
\* What a constructor call leaves: the dimension and list of the new object,
\* or the exception it raised
NoObject(e) == [dimension |-> 0, board |-> <<>>, exc |-> e]

\* SquareBoard.__init__(self, dimension), called with the positional
\* arguments args
SquareBoard_init(args) ==
    IF Len(args) # 1
    THEN NoObject("TypeError")
    ELSE [dimension |-> args[1],
          board |-> [n \in 1..(args[1] * args[1]) |-> None],
          exc |-> "none"]

\* Sudoku.__init__ taking the dimension as its argument
Sudoku_init_dim(args) ==
    SquareBoard_init(args)

\* Sudoku.__init__(self): it takes no argument and builds a board of
\* dimension 9
Sudoku_init(args) ==
    IF Len(args) # 0
    THEN NoObject("TypeError")
    ELSE SquareBoard_init(<<9>>)

\* cls(*args)
New(cls, args) ==
    IF cls = "Sudoku" THEN Sudoku_init(args) ELSE SquareBoard_init(args)

\* int(math.sqrt(n))
isqrt(n) == CHOOSE d \in 0..n : d * d <= n /\ n < (d + 1) * (d + 1)

\* cls.from_list(lst)
from_list(cls, lst) ==
    LET dim == isqrt(Len(lst))
    IN  IF dim * dim # Len(lst)
        THEN NoObject("ValueError")
        ELSE LET new == New(cls, <<dim>>)
             IN  IF new.exc # "none"
                 THEN new
                 ELSE [new EXCEPT !.board = lst]

\* list(value for value, position in self): __iter__ reads self[row, col]
\* through _rowmajor for row, then col, ascending
iter(d, b) ==
    [n \in 1..(d * d) |->
        LET row == ((n - 1) \div d) + 1
            col == ((n - 1) % d) + 1
        IN  b[(col - 1) + (row - 1) * d + 1]]

(***************************************************************************)
(* State                                                                   *)
(***************************************************************************)
VARIABLES
    board,          \* Sudoku._board, the row-major list of cells
    possibilities,  \* SudokuSolver.possibilities
    updates,        \* SudokuSolver.updates, a set of (value, (row, col))
    pc,             \* where the program is: "new" (no board constructed
                    \* yet), "setup" (a board, no solve running),
                    \* "seed", "outer", "inner", "update", "sweep" (in
                    \* solve), "done" (solve returned), "failed" (it raised)
    value,          \* solve's local `value`
    val,            \* solve's local `val`
    cur,            \* solve's locals (row, col)
    k,              \* the iteration of the seed or sweep loop over the puzzle
    uc,             \* the frame of the running update_cell call
    exc,            \* the exception solve() raised
    call,           \* the last operation, when it was a __setitem__ made
                    \* from outside the solver: its arguments and exception
    nsets,          \* number of such __setitem__ calls so far
    given,          \* the board as it was when the solver was constructed
    first,          \* the outcome of the first of two solve() runs made on
                    \* the same givens
    obj             \* the constructor call that made the board: its class,
                    \* arguments, resulting dimension and exception

vars == <<board, possibilities, updates, pc, value, val, cur, k, uc, exc,
          call, nsets, given, first, obj>>

\* No update_cell call is running
NoFrame == [row |-> 0, col |-> 0, value |-> 0, step |-> "none",
            loop |-> "none", at |-> 0]

\* The last operation was not a __setitem__ from outside
NoCall == [row |-> 0, col |-> 0, value |-> 0, exc |-> "none"]

\* No first run of solve() has been recorded
NoRun == [board |-> <<>>, pc |-> "none", exc |-> "none"]

\* No constructor has been called yet
NoObj == [cls |-> "none", via |-> "none", arg |-> <<>>, dimension |-> 0,
          exc |-> "none"]

\* The record of the call cls(*arg) or cls.from_list(arg) with result r
Made(cls, via, arg, r) ==
    [cls |-> cls, via |-> via, arg |-> arg, dimension |-> r.dimension,
     exc |-> r.exc]

\* Locals (row, col) not bound yet
Unbound == <<0, 0>>

(***************************************************************************)
(* Puzzles and inputs                                                      *)
(***************************************************************************)
\* test_sudoku.py: the givens of easy_sudoku, in the order they are placed
EasyPlacements ==
    << <<1, 1, 2>>, <<1, 2, 6>>, <<2, 2, 8>>, <<2, 3, 9>>, <<3, 2, 7>>,
       <<3, 3, 1>>, <<2, 5, 6>>, <<3, 6, 8>>, <<3, 7, 6>>, <<3, 8, 9>>,
       <<3, 9, 4>>, <<4, 3, 6>>, <<4, 5, 9>>, <<4, 6, 4>>, <<4, 7, 8>>,
       <<4, 9, 5>>, <<5, 3, 4>>, <<5, 4, 8>>, <<5, 6, 7>>, <<5, 7, 9>>,
       <<6, 1, 1>>, <<6, 3, 8>>, <<6, 4, 6>>, <<6, 5, 3>>, <<6, 7, 4>>,
       <<7, 1, 9>>, <<7, 2, 5>>, <<7, 3, 3>>, <<7, 7, 1>>, <<7, 8, 4>>,
       <<8, 5, 1>>, <<8, 7, 5>>, <<8, 8, 7>>, <<9, 8, 8>>, <<9, 9, 9>> >>

\* Two givens and (9, 9) empty
PairPlacements ==
    << <<2, 2, 9>>, <<5, 1, 1>> >>

\* Four 1s that leave (1, 1) as the only place for 1 in row 1; (9, 9) holds 1
HiddenPlacements ==
    << <<2, 4, 1>>, <<3, 7, 1>>, <<4, 2, 1>>, <<7, 3, 1>>, <<9, 9, 1>> >>

\* Four 2s that leave (1, 1) as the only place for 2 in row 1; (9, 9) holds 1
OtherPlacements ==
    << <<2, 4, 2>>, <<3, 7, 2>>, <<4, 2, 2>>, <<7, 3, 2>>, <<9, 9, 1>> >>

\* Row 9 holds 1..8 in columns 2..9: (9, 1) can only be 9
NakedPlacements ==
    << <<9, 2, 1>>, <<9, 3, 2>>, <<9, 4, 3>>, <<9, 5, 4>>, <<9, 6, 5>>,
       <<9, 7, 6>>, <<9, 8, 7>>, <<9, 9, 8>> >>

\* The givens of HiddenPlacements, and four 2s that leave (1, 1) as the only
\* place for 2 in row 1 as well
BothPlacements ==
    HiddenPlacements \o
    << <<2, 5, 2>>, <<3, 8, 2>>, <<5, 2, 2>>, <<8, 3, 2>> >>

\* The givens of HiddenPlacements, 2..8 in row 1 and 9 at (2, 1): once 1 is
\* at (1, 1) the empty cell (1, 2) has every value in its row, column or
\* subgrid
ContraPlacements ==
    HiddenPlacements \o
    << <<1, 3, 2>>, <<1, 4, 3>>, <<1, 5, 4>>, <<1, 6, 5>>, <<1, 7, 6>>,
       <<1, 8, 7>>, <<1, 9, 8>>, <<2, 1, 9>> >>

\* The puzzles a behaviour can start from
Puzzles ==
    { Placed(EmptyBoard, <<>>), Placed(EmptyBoard, PairPlacements),
      Placed(EmptyBoard, HiddenPlacements),
      Placed(EmptyBoard, OtherPlacements), Placed(EmptyBoard, NakedPlacements) }

\* The arguments of the __setitem__ calls made from outside the solver
SetCells == { <<1, 1>>, <<9, 1>> }
SetValues == { 0, 1, 9, 10 }

(***************************************************************************)
(* Initial states                                                          *)
(***************************************************************************)
InitAt(b) ==
    /\ board = b
    /\ possibilities = NoPossibilities
    /\ updates = {}
    /\ pc = "setup"
    /\ value = None
    /\ val = None
    /\ cur = Unbound
    /\ k = 0
    /\ uc = NoFrame
    /\ exc = "none"
    /\ call = NoCall
    /\ nsets = 0
    /\ given = b
    /\ first = NoRun
    /\ obj = Made("Sudoku", "init", <<>>, Sudoku_init(<<>>))

Init == \E b \in Puzzles : InitAt(b)

InitEasy == InitAt(Placed(EmptyBoard, EasyPlacements))

(***************************************************************************)
(* Operations on the puzzle from outside the solver                        *)
(***************************************************************************)
\* puzzle[row, col] = value, made while no solve() is running.  A solver
\* that has finished is discarded with its candidate sets and updates.
SetItem ==
    /\ pc \in {"setup", "done", "failed"}
    /\ nsets < MaxSets
    /\ \E pos \in SetCells, v \in SetValues :
          LET r == Sudoku_setitem(board, pos[1], pos[2], v)
          IN  /\ board' = r.board
              /\ given' = r.board
              /\ call' = [row |-> pos[1], col |-> pos[2], value |-> v,
                          exc |-> r.exc]
    /\ nsets' = nsets + 1
    /\ pc' = "setup"
    /\ possibilities' = NoPossibilities
    /\ updates' = {}
    /\ value' = None
    /\ val' = None
    /\ cur' = Unbound
    /\ k' = 0
    /\ uc' = NoFrame
    /\ exc' = "none"
    /\ UNCHANGED <<first, obj>>

(***************************************************************************)
(* SudokuSolver.__init__ and solve()                                       *)
(***************************************************************************)
\* slvr = SudokuSolver(puzzle); slvr.solve() up to the first loop
SudokuSolver_init ==
    /\ pc = "setup"
    /\ possibilities' = FullPossibilities
    /\ updates' = {}
    /\ pc' = "seed"
    /\ k' = 1
    /\ value' = None
    /\ val' = None
    /\ cur' = Unbound
    /\ uc' = NoFrame
    /\ exc' = "none"
    /\ call' = NoCall
    /\ given' = board
    /\ UNCHANGED <<board, nsets, first, obj>>

\* solve(), "initial loop": one iteration of `for value, (row, col) in puzzle`
Seed ==
    /\ pc = "seed"
    /\ LET pos == IterPos(k)
           v == getitem(board, pos[1], pos[2])
       IN  /\ value' = v
           /\ cur' = pos
           /\ IF v # None
              THEN /\ possibilities' =
                        clear_subgrid(
                            clear_col(clear_row(possibilities, pos[1], v),
                                      pos[2], v),
                            pos[1], pos[2], v)
                   /\ updates' = updates \cup {<<v, pos>>}
              ELSE UNCHANGED <<possibilities, updates>>
    /\ IF k = NumCells THEN pc' = "outer" /\ k' = 0
                       ELSE pc' = "seed" /\ k' = k + 1
    /\ UNCHANGED <<board, val, uc, exc, call, nsets, given, first, obj>>

\* solve(): the test of the outer `while self.updates:`; solve returns when
\* it fails
WhileOuter ==
    /\ pc = "outer"
    /\ pc' = IF updates = {} THEN "done" ELSE "inner"
    /\ UNCHANGED <<board, possibilities, updates, value, val, cur, k, uc, exc,
                   call, nsets, given, first, obj>>

\* solve(): where the for loops of the drain go on from their j-th check,
\* with (row, col) = rc and value = v: into the first update_cell call, or
\* back to the test of the inner while
DrainFrom(ps, j, rc, v) ==
    LET n == NextFiring(ps, j, rc[1], rc[2], v)
    IN  IF n > NumChecks
        THEN [pc |-> "inner", uc |-> NoFrame]
        ELSE LET p == CHOOSE q \in DrainCheck(ps, n, rc[1], rc[2], v) : TRUE
             IN  [pc |-> "update",
                  uc |-> [row |-> p[1], col |-> p[2], value |-> v,
                          step |-> "clear_row", loop |-> "drain",
                          at |-> n + 1]]

\* Pop that leaves the popped update in the set
Pop_peek ==
    /\ pc = "inner"
    /\ updates # {}
    /\ \E u \in updates :
          /\ updates' = updates
          /\ val' = u[1]
          /\ cur' = u[2]
          /\ IF value = None
             THEN pc' = "failed" /\ exc' = "TypeError" /\ uc' = NoFrame
             ELSE LET d == DrainFrom(possibilities, 1, u[2], value)
                  IN  pc' = d.pc /\ uc' = d.uc /\ exc' = exc
    /\ UNCHANGED <<board, possibilities, value, k, call, nsets, given, first, obj>>

\* Pop whose checks are made with the popped `val`
Pop_val ==
    /\ pc = "inner"
    /\ updates # {}
    /\ \E u \in updates :
          /\ updates' = updates \ {u}
          /\ val' = u[1]
          /\ cur' = u[2]
          /\ LET d == DrainFrom(possibilities, 1, u[2], u[1])
             IN  pc' = d.pc /\ uc' = d.uc /\ exc' = exc
    /\ UNCHANGED <<board, possibilities, value, k, call, nsets, given, first, obj>>

\* solve(): val, (row, col) = self.updates.pop() and the checks that follow,
\* up to the first update_cell call.  The checks are made with solve's
\* `value`, not with the popped `val`; `value - 1` raises TypeError when
\* value is None.  set.pop() removes an arbitrary element.
Pop ==
    /\ pc = "inner"
    /\ updates # {}
    /\ \E u \in updates :
          /\ updates' = updates \ {u}
          /\ val' = u[1]
          /\ cur' = u[2]
          /\ IF value = None
             THEN pc' = "failed" /\ exc' = "TypeError" /\ uc' = NoFrame
             ELSE LET d == DrainFrom(possibilities, 1, u[2], value)
                  IN  pc' = d.pc /\ uc' = d.uc /\ exc' = exc
    /\ UNCHANGED <<board, possibilities, value, k, call, nsets, given, first, obj>>

\* solve(): the inner `while self.updates:` ends, the sweep over the puzzle
\* begins
InnerExit ==
    /\ pc = "inner"
    /\ updates = {}
    /\ pc' = "sweep"
    /\ k' = 1
    /\ UNCHANGED <<board, possibilities, updates, value, val, cur, uc, exc,
                   call, nsets, given, first, obj>>

\* solve(): one iteration of `for value, (row, col) in self.puzzle:
\* if not value: self.check_cell(row, col)`, up to the update_cell call
Sweep ==
    /\ pc = "sweep"
    /\ LET pos == IterPos(k)
           v == getitem(board, pos[1], pos[2])
           c == check_cell(possibilities, board, pos[1], pos[2])
           next == IF k = NumCells THEN [pc |-> "outer", k |-> 0]
                                   ELSE [pc |-> "sweep", k |-> k + 1]
       IN  /\ value' = v
           /\ cur' = pos
           /\ IF v # None
              THEN pc' = next.pc /\ k' = next.k /\ uc' = NoFrame /\ exc' = exc
              ELSE IF c.raise
              THEN pc' = "failed" /\ k' = k /\ uc' = NoFrame
                   /\ exc' = "SudokuIntegrityError"
              ELSE IF c.values # {}
              THEN /\ pc' = "update"
                   /\ k' = k
                   /\ uc' = [row |-> pos[1], col |-> pos[2],
                             value |-> CHOOSE w \in c.values : TRUE,
                             step |-> "clear_row", loop |-> "sweep",
                             at |-> k + 1]
                   /\ exc' = exc
              ELSE pc' = next.pc /\ k' = next.k /\ uc' = NoFrame /\ exc' = exc
    /\ UNCHANGED <<board, possibilities, updates, val, call, nsets, given, first, obj>>

(***************************************************************************)
(* SudokuSolver.update_cell, statement by statement                        *)
(***************************************************************************)
\* clear_row followed at once by the enqueueing of the update
Update_clear_row_add ==
    /\ pc = "update" /\ uc.step = "clear_row"
    /\ possibilities' = clear_row(possibilities, uc.row, uc.value)
    /\ updates' = updates \cup {<<uc.value, <<uc.row, uc.col>>>>}
    /\ uc' = [uc EXCEPT !.step = "clear_col"]
    /\ UNCHANGED <<board, pc, value, val, cur, k, exc, call, nsets, given,
                   first, obj>>

\* self.clear_row(row, value)
Update_clear_row ==
    /\ pc = "update" /\ uc.step = "clear_row"
    /\ possibilities' = clear_row(possibilities, uc.row, uc.value)
    /\ uc' = [uc EXCEPT !.step = "clear_col"]
    /\ UNCHANGED <<board, updates, pc, value, val, cur, k, exc, call, nsets,
                   given, first, obj>>

\* self.clear_col(col, value)
Update_clear_col ==
    /\ pc = "update" /\ uc.step = "clear_col"
    /\ possibilities' = clear_col(possibilities, uc.col, uc.value)
    /\ uc' = [uc EXCEPT !.step = "clear_subgrid"]
    /\ UNCHANGED <<board, updates, pc, value, val, cur, k, exc, call, nsets,
                   given, first, obj>>

\* self.clear_subgrid(row, col, value)
Update_clear_subgrid ==
    /\ pc = "update" /\ uc.step = "clear_subgrid"
    /\ possibilities' = clear_subgrid(possibilities, uc.row, uc.col, uc.value)
    /\ uc' = [uc EXCEPT !.step = "write"]
    /\ UNCHANGED <<board, updates, pc, value, val, cur, k, exc, call, nsets,
                   given, first, obj>>

\* self.puzzle[row, col] = value: Sudoku.__setitem__; an exception it raises
\* leaves update_cell and solve()
Update_write ==
    /\ pc = "update" /\ uc.step = "write"
    /\ LET r == Sudoku_setitem(board, uc.row, uc.col, uc.value)
       IN  /\ board' = r.board
           /\ IF r.exc = "none"
              THEN pc' = pc /\ exc' = exc
                   /\ uc' = [uc EXCEPT !.step = "add"]
              ELSE pc' = "failed" /\ exc' = r.exc /\ uc' = NoFrame
    /\ UNCHANGED <<possibilities, updates, value, val, cur, k, call, nsets,
                   given, first, obj>>

\* self.updates.add((value, (row, col)))
Update_add ==
    /\ pc = "update" /\ uc.step = "add"
    /\ updates' = updates \cup {<<uc.value, <<uc.row, uc.col>>>>}
    /\ uc' = [uc EXCEPT !.step = "discard"]
    /\ UNCHANGED <<board, possibilities, pc, value, val, cur, k, exc, call,
                   nsets, given, first, obj>>

\* for ps in self.possibilities: ps.discard((row, col)), and the return to
\* the loop of solve() the call was made from
Update_discard ==
    /\ pc = "update" /\ uc.step = "discard"
    /\ possibilities' =
          [v \in Idx |-> possibilities[v] \ {<<uc.row, uc.col>>}]
    /\ IF uc.loop = "drain"
       THEN LET d == DrainFrom(possibilities', uc.at, cur, value)
            IN  pc' = d.pc /\ uc' = d.uc /\ k' = k
       ELSE /\ uc' = NoFrame
            /\ IF uc.at > NumCells THEN pc' = "outer" /\ k' = 0
                                   ELSE pc' = "sweep" /\ k' = uc.at
    /\ UNCHANGED <<board, updates, value, val, cur, exc, call, nsets, given, first, obj>>

update_cell ==
    \/ Update_clear_row
    \/ Update_clear_col
    \/ Update_clear_subgrid
    \/ Update_write
    \/ Update_add
    \/ Update_discard

(***************************************************************************)
(* Specifications                                                          *)
(***************************************************************************)
Solve ==
    \/ SudokuSolver_init
    \/ Seed
    \/ WhileOuter
    \/ Pop
    \/ InnerExit
    \/ Sweep
    \/ update_cell

Next == SetItem \/ Solve

Spec == Init /\ [][Next]_vars

\* solve() runs to its end: the program is sequential and nothing suspends it
LiveSpec == Spec /\ WF_vars(Next)

(***************************************************************************)
(* The easy puzzle of test_sudoku.py                                       *)
(*                                                                         *)
(* With its 35 givens the pending updates run through up to 2^35 subsets   *)
(* when every pop is a step.  A pop changes the board or the candidate     *)
(* sets only through a check that calls update_cell.  In a state where no  *)
(* pending update makes any check fire, each pop removes one update and    *)
(* changes nothing else, so nothing can fire later in this drain either:   *)
(* the inner while loop ends with the updates empty and the board and the  *)
(* candidate sets as they are.  DrainQuiescent takes these pops in one     *)
(* step; every other step is the step of Solve.                            *)
(***************************************************************************)
Quiescent ==
    /\ pc = "inner"
    /\ updates # {}
    /\ value # None
    /\ \A u \in updates :
          NextFiring(possibilities, 1, u[2][1], u[2][2], value) > NumChecks

\* A pop in a state where some pending update can make a check fire
PopFiring == ~Quiescent /\ Pop

\* The rest of the inner while loop in a quiescent state; u is the update
\* popped last
DrainQuiescent ==
    /\ Quiescent
    /\ \E u \in updates : val' = u[1] /\ cur' = u[2]
    /\ updates' = {}
    /\ UNCHANGED <<board, possibilities, pc, value, k, uc, exc, call, nsets,
                   given, first, obj>>

SolveEasy ==
    \/ SudokuSolver_init
    \/ Seed
    \/ WhileOuter
    \/ PopFiring
    \/ DrainQuiescent
    \/ InnerExit
    \/ Sweep
    \/ update_cell

SpecEasy == InitEasy /\ [][SolveEasy]_vars /\ WF_vars(SolveEasy)

\* A contradictory puzzle, with the pops taken as for the easy puzzle
InitContra == InitAt(Placed(EmptyBoard, ContraPlacements))

SpecContra == InitContra /\ [][SolveEasy]_vars

(***************************************************************************)
(* solve() run twice on the same givens                                    *)
(*                                                                         *)
(* set.pop() takes the pending updates in an order the program does not    *)
(* fix.  To compare two runs, the puzzle is built again with the givens of *)
(* the first run once that run has ended, and a new solver is run on it;   *)
(* the two runs pop independently of each other.                           *)
(***************************************************************************)
\* The puzzles of Puzzles, one where two values compete for a cell, and
\* those the call puzzle[1, 1] = 9 makes of the puzzles of Puzzles
TwicePuzzles ==
    Puzzles \cup { Placed(EmptyBoard, BothPlacements) } \cup
    { Sudoku_setitem(b, 1, 1, 9).board : b \in Puzzles }

InitTwice == \E b \in TwicePuzzles : InitAt(b)

\* The first run has ended: its outcome is kept, and a puzzle with the same
\* givens is set up for a second solver
Rerun ==
    /\ pc \in {"done", "failed"}
    /\ first = NoRun
    /\ first' = [board |-> board, pc |-> pc, exc |-> exc]
    /\ board' = given
    /\ pc' = "setup"
    /\ possibilities' = NoPossibilities
    /\ updates' = {}
    /\ value' = None
    /\ val' = None
    /\ cur' = Unbound
    /\ k' = 0
    /\ uc' = NoFrame
    /\ exc' = "none"
    /\ UNCHANGED <<call, nsets, given, obj>>

NextTwice == Solve \/ Rerun

SpecTwice == InitTwice /\ [][NextTwice]_vars

(***************************************************************************)
(* Construction of boards and puzzles                                      *)
(***************************************************************************)
\* test_sudoku.py: the list medium_sudoku is made from
MediumList ==
    << None, None, None,    6, None, None,    4, None, None,
       None,    5,    2, None,    3, None, None,    8, None,
          4, None, None,    5, None, None,    7, None, None,
          5, None,    1, None, None, None, None,    4, None,
          7, None, None,    3, None,    6, None, None,    8,
       None,    2, None, None, None, None,    1, None,    7,
       None, None,    6, None, None,    5, None, None,    1,
       None,    4, None, None,    6, None,    9,    7, None,
       None, None,    5, None, None,    7, None, None, None >>

\* The dimensions, classes and positional arguments of the constructor calls
BuildDims == {2, 7, 9}
Classes == {"SquareBoard", "Sudoku"}
BuildArgs == {<<>>} \cup {<<d>> : d \in BuildDims}

\* The lists from_list is called with: lists of 81 cells (the medium puzzle,
\* and every list with one cell filled with 1 or 9), lists for the dimensions
\* 2 and 7, and a list whose length is not a square
BuildLists ==
    {MediumList} \cup
    { [n \in 1..NumCells |-> IF n = i THEN v ELSE None] :
          i \in 1..NumCells, v \in {1, 9} } \cup
    { <<1, None, None, 2>>, [n \in 1..49 |-> IF n = 8 THEN 7 ELSE None],
      <<1, 2, 3>> }

\* No constructor has been called
InitBuild ==
    /\ board = <<>>
    /\ possibilities = NoPossibilities
    /\ updates = {}
    /\ pc = "new"
    /\ value = None
    /\ val = None
    /\ cur = Unbound
    /\ k = 0
    /\ uc = NoFrame
    /\ exc = "none"
    /\ call = NoCall
    /\ nsets = 0
    /\ given = <<>>
    /\ first = NoRun
    /\ obj = NoObj

\* SquareBoard(*args) or Sudoku(*args): the new object when the call returns
Construct_init ==
    /\ pc = "new"
    /\ \E cls \in Classes, args \in BuildArgs :
          LET r == New(cls, args)
          IN  /\ obj' = Made(cls, "init", args, r)
              /\ board' = r.board
              /\ given' = r.board
              /\ pc' = IF r.exc = "none" THEN "setup" ELSE "new"
    /\ UNCHANGED <<possibilities, updates, value, val, cur, k, uc, exc, call,
                   nsets, first>>

\* SquareBoard.from_list(lst) or Sudoku.from_list(lst)
Construct_from_list ==
    /\ pc = "new"
    /\ \E cls \in Classes, lst \in BuildLists :
          LET r == from_list(cls, lst)
          IN  /\ obj' = Made(cls, "from_list", lst, r)
              /\ board' = r.board
              /\ given' = r.board
              /\ pc' = IF r.exc = "none" THEN "setup" ELSE "new"
    /\ UNCHANGED <<possibilities, updates, value, val, cur, k, uc, exc, call,
                   nsets, first>>

NextBuild == Construct_init \/ Construct_from_list

SpecBuild == InitBuild /\ [][NextBuild]_vars

(***************************************************************************)
(* Vocabulary of the properties                                            *)
(***************************************************************************)
\* The content of the cell at position p
Cell(b, p) == getitem(b, p[1], p[2])

SameRow(p, q) == p[1] = q[1]
SameCol(p, q) == p[2] = q[2]
SameSubgrid(p, q) ==
    /\ (p[1] - 1) \div 3 = (q[1] - 1) \div 3
    /\ (p[2] - 1) \div 3 = (q[2] - 1) \div 3

\* p and q lie in a common row, column or 3x3 subgrid (p = q included)
Peer(p, q) == SameRow(p, q) \/ SameCol(p, q) \/ SameSubgrid(p, q)

\* The positions of the row, the column and the subgrid of each position
Peers == [p \in Positions |-> {q \in Positions : Peer(p, q)}]

\* v is in a filled cell of the row, the column or the subgrid of p
Occurs(b, p, v) == \E q \in Peers[p] : Cell(b, q) = v

\* The rows, the columns and the subgrids as sets of positions
Groups ==
    {{p \in Positions : p[1] = i} : i \in Idx}
    \cup {{p \in Positions : p[2] = j} : j \in Idx}
    \cup {{p \in Positions : (p[1] - 1) \div 3 = a /\ (p[2] - 1) \div 3 = c} :
            a \in 0..2, c \in 0..2}

\* The values that still have p as a candidate position
CandidatesAt(p) == {v \in Idx : p \in possibilities[v]}

\* solve() is past its seeding loop
Seeded == pc \in {"outer", "inner", "update", "sweep", "done", "failed"}

\* solve() has returned or raised
Ended == pc \in {"done", "failed"}

\* The solver has written a cell that was empty when it was constructed
Committed == \E p \in Positions : Cell(given, p) = None /\ Cell(board, p) # None

\* The last step was a __setitem__ call from outside the solver
SetItemStep == nsets' = nsets + 1

(***************************************************************************)
(* Properties                                                              *)
(***************************************************************************)
\* C1: whatever __setitem__ calls were made (accepted or rejected) and
\* whatever the solver committed, no value is in two different cells of one
\* row, column or subgrid.
C1_NoDuplicate ==
    \A p \in Positions :
        Cell(board, p) # None =>
            \A q \in Peers[p] \ {p} : Cell(board, q) # Cell(board, p)

\* C1 witness: a __setitem__ call was made, and a solve() that came after it
\* has committed a value and returned
C1_Witness == nsets > 0 /\ pc = "done" /\ Committed

\* C2: a __setitem__ call with a value of 1..dimension that is already in a
\* filled cell of the row, column or subgrid of its position raises
\* SudokuIntegrityError and changes no cell.
C2_DuplicateRejected ==
    [][ ( /\ SetItemStep
          /\ call'.value \in Idx
          /\ Occurs(board, <<call'.row, call'.col>>, call'.value) )
        => (call'.exc = "SudokuIntegrityError" /\ board' = board) ]_vars

\* C2 witness: a duplicate placement has been rejected
C2_Witness ==
    /\ call.exc = "SudokuIntegrityError"
    /\ Occurs(board, <<call.row, call.col>>, call.value)

\* C3: a __setitem__ call with a value outside 1..dimension raises ValueError
\* (never SudokuIntegrityError) and changes no cell.
C3_InvalidValueRejected ==
    [][ (SetItemStep /\ call'.value \notin Idx)
        => (call'.exc = "ValueError" /\ board' = board) ]_vars

\* C3 witness: a value outside the range has been rejected
C3_Witness == call.exc = "ValueError" /\ call.value \notin Idx

\* The board is complete: no cell is empty, and every row, column and
\* subgrid holds each value of 1..dimension (exactly once, having dimension
\* cells)
Solved(b) ==
    /\ \A p \in Positions : Cell(b, p) # None
    /\ \A G \in Groups : {Cell(b, p) : p \in G} = Idx

\* C4: on the easy puzzle solve() never raises, it returns, and the board it
\* returns with is complete and legal, in whatever order the updates are
\* popped.
C4_EasySolved ==
    /\ [](pc # "failed" /\ (pc = "done" => Solved(board)))
    /\ <>(pc = "done")

\* C4 witness: solve() has returned on the easy puzzle with all 81 cells
\* filled, the 35 givens among them
C4_Witness ==
    /\ pc = "done"
    /\ given = Placed(EmptyBoard, EasyPlacements)
    /\ \A p \in Positions : Cell(board, p) # None

\* No candidate is ever added while a solver exists
CandidatesShrink ==
    \A v \in Idx : possibilities'[v] \subseteq possibilities[v]

\* The first statement of update_cell is reached with (row, col) a
\* candidate position of value, and removes it
CommitRemoves ==
    (pc = "update" /\ uc.step = "clear_row")
        => /\ <<uc.row, uc.col>> \in possibilities[uc.value]
           /\ <<uc.row, uc.col>> \notin possibilities'[uc.value]

\* C5: every solve() that is started ends (returns or raises); on the way no
\* candidate is added back and every commit removes a candidate.
C5_Terminates ==
    /\ (pc = "seed") ~> Ended
    /\ [][pc # "setup" => (CandidatesShrink /\ CommitRemoves)]_vars

\* C5 witness: a solve() that committed a value has ended with its updates
\* drained
C5_Witness == Ended /\ Committed /\ updates = {} /\ nsets = 0

\* C6: solve() ends by returning or by raising SudokuIntegrityError for an
\* empty cell without candidates, and in no other way.
C6_TwoOutcomes ==
    pc = "failed" =>
        /\ exc = "SudokuIntegrityError"
        /\ \E p \in Positions :
              Cell(board, p) = None /\ CandidatesAt(p) = {}

\* C7: once seeding is over, a filled cell is a candidate position of no
\* value.
C7_FilledNotCandidate ==
    Seeded =>
        \A p \in Positions : Cell(board, p) # None => CandidatesAt(p) = {}

\* C8: once seeding is over, in every state of solve() (between any two
\* statements of update_cell as well) a candidate position of v has no v in
\* its row, column or subgrid, that is, no position of the row, column or
\* subgrid of a cell that holds v is a candidate of v; right after
\* update_cell has written v at p no position of p's row, column or subgrid
\* is a candidate of v.
C8_CandidateSound ==
    Seeded =>
        /\ \A q \in Positions :
              Cell(board, q) # None =>
                  Peers[q] \cap possibilities[Cell(board, q)] = {}
        /\ (pc = "update" /\ uc.step = "add") =>
              /\ Cell(board, <<uc.row, uc.col>>) = uc.value
              /\ Peers[<<uc.row, uc.col>>] \cap possibilities[uc.value] = {}

\* C8 witness: update_cell has just written its value to a cell that was
\* empty
C8_Witness ==
    /\ pc = "update" /\ uc.step = "add"
    /\ Cell(board, <<uc.row, uc.col>>) = uc.value
    /\ Cell(given, <<uc.row, uc.col>>) = None

\* C9: when solve() has returned no value has exactly one candidate
\* position in a row, column or subgrid.
C9_NoHiddenSingle ==
    pc = "done" =>
        \A v \in Idx : \A G \in Groups :
            Cardinality(G \cap possibilities[v]) # 1

\* C10: when solve() has returned the updates are empty and no empty cell
\* has exactly one candidate value.
C10_NoNakedSingle ==
    pc = "done" =>
        /\ updates = {}
        /\ \A p \in Positions :
              Cell(board, p) = None => Cardinality(CandidatesAt(p)) # 1

\* C10 witness: solve() has returned after a sweep that committed the one
\* candidate value of (9, 1), with other cells still empty
C10_Witness ==
    /\ pc = "done"
    /\ Cell(given, <<9, 1>>) = None
    /\ Cell(board, <<9, 1>>) = 9
    /\ \E p \in Positions : Cell(board, p) = None

C12_FailsAtOnce ==
    [][ /\ ( /\ pc = "sweep"
             /\ Cell(board, IterPos(k)) = None
             /\ CandidatesAt(IterPos(k)) = {} )
           => ( /\ pc' = "failed"
                /\ exc' = "SudokuIntegrityError"
                /\ board' = board )
        /\ (pc = "failed" /\ ~SetItemStep) => board' = board ]_vars

\* solve() has failed on a cell without candidates, and a value it committed
\* before is on the board
C12_Witness ==
    /\ pc = "failed"
    /\ exc = "SudokuIntegrityError"
    /\ Cell(board, cur) = None
    /\ CandidatesAt(cur) = {}
    /\ \E p \in Positions : Cell(given, p) = None /\ Cell(board, p) # None

(***************************************************************************)
(* C13: a puzzle (a Sudoku) made by from_list from a list of D*D cells is  *)
(* created, and reading it back in row-major order gives that list.        *)
(***************************************************************************)
C13_RoundTrip ==
    ( /\ obj.cls = "Sudoku"
      /\ obj.via = "from_list"
      /\ isqrt(Len(obj.arg)) * isqrt(Len(obj.arg)) = Len(obj.arg) )
    => ( /\ obj.exc = "none"
         /\ pc = "setup"
         /\ iter(obj.dimension, board) = obj.arg )

(***************************************************************************)
(* C14: constructing a puzzle (a Sudoku) with a dimension that is not a    *)
(* multiple of 3 raises, and leaves no object; whatever constructor call   *)
(* is made, no Sudoku exists whose dimension is not a multiple of 3.       *)
(***************************************************************************)
C14_DimensionRejected ==
    /\ ( /\ obj.cls = "Sudoku"
         /\ obj.via = "init"
         /\ Len(obj.arg) = 1
         /\ obj.arg[1] % 3 # 0 )
       => (obj.exc # "none" /\ pc = "new" /\ board = <<>>)
    /\ (obj.cls = "Sudoku" /\ pc = "setup") => obj.dimension % 3 = 0

\* Sudoku(7) was called and raised
C14_Witness ==
    /\ obj.cls = "Sudoku"
    /\ obj.via = "init"
    /\ obj.arg = <<7>>
    /\ obj.exc = "TypeError"
    /\ pc = "new"

(***************************************************************************)
(* C15: when the drain pops an update (v, p), the checks that follow are   *)
(* made for the popped value v, and the row of p, the column of p and the  *)
(* subgrid of p are among the groups they check.  The checks of a pop are  *)
(* made with solve's `value` on the groups DrainGroup(j, p), j = 1 ..      *)
(* NumChecks; val' and cur' are the popped v and p.                        *)
(***************************************************************************)
C15_RecheckPopped ==
    [][ (pc = "inner" /\ updates' # updates)
        => ( /\ value = val'
             /\ \A G \in { row_positions(cur'[1]), col_positions(cur'[2]),
                           subgrid_positions(cur'[1], cur'[2]) } :
                    \E j \in 1..NumChecks :
                        DrainGroup(j, cur'[1], cur'[2]) = G ) ]_vars

(***************************************************************************)
(* C16: whenever the givens have a completion S (a full legal grid that    *)
(* agrees with them), every cell solve() has written holds S's value.      *)
(* The completions are taken from KnownGrids: two grids that complete      *)
(* HiddenPlacements and two that complete NakedPlacements.                 *)
(***************************************************************************)
KnownGrids ==
    { << 1, 5, 4, 3, 6, 8, 7, 9, 2,
         7, 9, 6, 1, 5, 2, 8, 3, 4,
         2, 8, 3, 7, 4, 9, 1, 5, 6,
         9, 1, 5, 2, 8, 3, 4, 6, 7,
         3, 4, 7, 9, 1, 6, 5, 2, 8,
         6, 2, 8, 5, 7, 4, 9, 1, 3,
         4, 6, 1, 8, 2, 5, 3, 7, 9,
         8, 7, 9, 6, 3, 1, 2, 4, 5,
         5, 3, 2, 4, 9, 7, 6, 8, 1 >>,
      << 1, 8, 5, 3, 4, 9, 2, 7, 6,
         3, 2, 6, 1, 8, 7, 9, 5, 4,
         4, 7, 9, 5, 2, 6, 1, 8, 3,
         5, 1, 2, 4, 7, 8, 6, 3, 9,
         7, 9, 3, 6, 5, 1, 8, 4, 2,
         8, 6, 4, 9, 3, 2, 5, 1, 7,
         2, 5, 1, 7, 6, 4, 3, 9, 8,
         9, 4, 8, 2, 1, 3, 7, 6, 5,
         6, 3, 7, 8, 9, 5, 4, 2, 1 >>,
      << 1, 3, 9, 6, 5, 4, 8, 2, 7,
         6, 8, 4, 9, 7, 2, 5, 1, 3,
         7, 2, 5, 1, 3, 8, 4, 6, 9,
         4, 9, 3, 5, 2, 1, 7, 8, 6,
         2, 6, 1, 7, 8, 9, 3, 5, 4,
         5, 7, 8, 4, 6, 3, 1, 9, 2,
         3, 5, 7, 8, 9, 6, 2, 4, 1,
         8, 4, 6, 2, 1, 7, 9, 3, 5,
         9, 1, 2, 3, 4, 5, 6, 7, 8 >>,
      << 4, 5, 9, 7, 3, 6, 1, 8, 2,
         8, 7, 1, 4, 5, 2, 9, 3, 6,
         3, 2, 6, 9, 8, 1, 4, 5, 7,
         1, 9, 8, 5, 6, 3, 7, 2, 4,
         7, 6, 5, 8, 2, 4, 3, 9, 1,
         2, 3, 4, 1, 9, 7, 8, 6, 5,
         6, 8, 7, 2, 1, 9, 5, 4, 3,
         5, 4, 3, 6, 7, 8, 2, 1, 9,
         9, 1, 2, 3, 4, 5, 6, 7, 8 >> }

\* The grids of KnownGrids that are full and legal
ValidGrids == {S \in KnownGrids : Solved(S)}

\* The known completions of the givens g
Completions(g) ==
    {S \in ValidGrids :
        \A p \in Positions : Cell(g, p) # None => Cell(S, p) = Cell(g, p)}

C16_Sound ==
    \A S \in Completions(given) :
        \A p \in Positions :
            Cell(board, p) # Cell(given, p) => Cell(board, p) = Cell(S, p)

\* solve() has returned with a cell it filled, on givens with two known
\* completions
C16_Witness ==
    /\ pc = "done"
    /\ Cardinality(Completions(given)) >= 2
    /\ \E p \in Positions : Cell(given, p) = None /\ Cell(board, p) # None

(***************************************************************************)
(* C17: a step of solve() never changes a cell that holds a value: a cell  *)
(* that is filled keeps its value in every later state of the run, so the  *)
(* givens are in place when solve() ends.                                  *)
(***************************************************************************)
C17_WritesOnlyEmpty ==
    [][ ~SetItemStep
        => \A p \in Positions :
               Cell(board, p) # None => Cell(board', p) = Cell(board, p) ]_vars

(***************************************************************************)
(* C18, as stated: in update_cell the write to the puzzle comes before any *)
(* removal from the candidate sets and before the update is enqueued, and  *)
(* a rejected write leaves the candidate sets and the updates as they are. *)
(***************************************************************************)
C18_WriteFirst ==
    [][ pc = "update"
        => /\ (possibilities' # possibilities \/ updates' # updates)
                  => Cell(board, <<uc.row, uc.col>>) = uc.value
           /\ pc' = "failed"
                  => (possibilities' = possibilities /\ updates' = updates)
      ]_vars

(***************************************************************************)
(* C18, amended: update_cell first removes the value from the candidate    *)
(* positions of the row, the column and the subgrid of the position, then  *)
(* writes the puzzle, then enqueues the update, then removes the position  *)
(* from the candidate sets of the other values.  The write is made with    *)
(* the update not yet enqueued; a write the puzzle rejects leaves the      *)
(* board and the pending updates as they are.                              *)
(***************************************************************************)
C18_ClearWriteAdd ==
    [][ pc = "update"
        => LET p == <<uc.row, uc.col>>
           IN  /\ board' # board
                      => ( /\ Peers[p] \cap possibilities[uc.value] = {}
                           /\ <<uc.value, p>> \notin updates
                           /\ updates' = updates
                           /\ possibilities' = possibilities )
               /\ updates' # updates => Cell(board, p) = uc.value
               /\ (\E w \in Idx \ {uc.value} :
                        possibilities'[w] # possibilities[w])
                      => ( /\ Cell(board, p) = uc.value
                           /\ <<uc.value, p>> \in updates )
               /\ pc' = "failed" => (board' = board /\ updates' = updates)
      ]_vars

\* update_cell has written the puzzle and is about to enqueue the update:
\* the value is already gone from the candidates of the row, column and
\* subgrid, the position is still a candidate of another value
C18_Witness ==
    /\ pc = "update"
    /\ uc.step = "add"
    /\ Cell(board, <<uc.row, uc.col>>) = uc.value
    /\ Peers[<<uc.row, uc.col>>] \cap possibilities[uc.value] = {}
    /\ <<uc.value, <<uc.row, uc.col>>>> \notin updates
    /\ \E w \in Idx \ {uc.value} : <<uc.row, uc.col>> \in possibilities[w]

====
